---- MODULE Spec2Model ----
(***************************************************************************)
(* Model of the two OpenType decoders of pathfinder:                       *)
(*   - CmapTable::glyph_ranges_for_codepoint_ranges  (src/src/otf/cmap.rs) *)
(*   - GlyfTable::for_each_point / bounding_rect     (src/src/otf/glyf.rs) *)
(* Tables are byte sequences; readers are byte offsets into the table (a   *)
(* Rust `&[u8]` reader is a suffix of the table, identified by its start). *)
(* Integer widths follow the Rust types.  An arithmetic overflow panics    *)
(* when the build has overflow checks and wraps otherwise; the build       *)
(* profile is the variable overflow_checks.                                *)
(***************************************************************************)
EXTENDS Integers, Sequences, FiniteSets, TLC

\* ------------------------------------------------------------------ bounds
MaxRanges == 2
MaxOut == 10
NThreads == 2

\* --------------------------------------------------------- program constants
PLATFORM_ID_UNICODE == 0
PLATFORM_ID_MICROSOFT == 3
MICROSOFT_ENCODING_ID_UNICODE_BMP == 1
MICROSOFT_ENCODING_ID_UNICODE_UCS4 == 10
FORMAT_SEGMENT_MAPPING_TO_DELTA_VALUES == 4
MISSING_GLYPH == 0
U16_MAX == 65535

\* ------------------------------------------------------- integer arithmetic
Err == -1
None == -1
Pow16 == 65536

Min(a, b) == IF a < b THEN a ELSE b

\* `x as u16`
AsU16(x) == x % Pow16

\* `x as i16` of a 16-bit pattern
AsI16(x) == IF x % Pow16 >= 32768 THEN (x % Pow16) - Pow16 ELSE x % Pow16

\* i16::wrapping_add followed by `as u16`
WrappingAddU16(a, b) == AsU16(AsI16(a) + AsI16(b))

\* ------------------------------------------------------------ byte readers
\* util::Jump for &[u8]: skip `offset` bytes of the reader, failing when
\* fewer remain.
Jump(bs, pos, offset) ==
    IF pos = Err THEN Err
    ELSE IF offset <= Len(bs) - pos THEN pos + offset ELSE Err

\* ReadBytesExt::read_u8 / read_u16::<BigEndian> / read_u32::<BigEndian>
\* on a reader at pos: the value, or Err when too few bytes remain.
ReadU8(bs, pos) ==
    IF pos = Err \/ pos + 1 > Len(bs) THEN Err ELSE bs[pos + 1]

ReadU16(bs, pos) ==
    IF pos = Err \/ pos + 2 > Len(bs) THEN Err
    ELSE bs[pos + 1] * 256 + bs[pos + 2]

ReadU32(bs, pos) ==
    IF pos = Err \/ pos + 4 > Len(bs) THEN Err
    ELSE ((bs[pos + 1] * 256 + bs[pos + 2]) * 256 + bs[pos + 3]) * 256 + bs[pos + 4]

\* A copy of the reader `base` jumped to its idx-th u16, then read.
ReadU16At(bs, base, idx) == ReadU16(bs, Jump(bs, base, idx * 2))

\* ======================================================================
\*                      cmap: CmapTable (cmap.rs)
\* ======================================================================
VARIABLES
    overflow_checks,   \* build profile: TRUE when integer overflow panics
    cmap_bytes,        \* self.table.bytes of the CmapTable
    codepoint_ranges,  \* the argument: sequence of [start, end] (u32 each)
    cmap_pc,           \* "entry", "for", "while", "returned", "panicked"
    hdr,               \* seg_count and the parallel array readers
    range_index,       \* position of the `for` loop in codepoint_ranges
    codepoint_range,   \* the mutable copy the `while` loop consumes
    glyph_ranges,      \* the Vec<GlyphRange> under construction
    segment,           \* locals of the last `while` iteration
    cmap_result        \* the returned Result: "none", "Err" or "Ok"

cmap_vars == <<overflow_checks, cmap_bytes, codepoint_ranges, cmap_pc, hdr,
               range_index, codepoint_range, glyph_ranges, segment, cmap_result>>

\* State of the glyf decoder (glyf.rs).
VARIABLES
    glyph,             \* description of the glyph record the table holds
    glyf_bytes,        \* self.table.bytes of the GlyfTable
    location,          \* loca_table.location_of(glyph_id): an offset or Err
    glyf_pc,           \* "entry", "contours", "points", "returned", "panicked"
    glyf_result,       \* the returned Result: "none", "Err" or "Ok"
    number_of_contours,
    contour,           \* position of the `for _ in 0..number_of_contours` loop
    endpoints_reader,
    flag_parser,       \* FlagParser: next, current, repeats_left
    x_coordinate_reader,
    y_coordinate_reader,
    position,
    point_index,
    contour_point_count,
    contour_point_index,
    starting_point,
    last_point_was_off_curve,
    emitted,           \* the points the callback has received, in order
    rect_result        \* result of bounding_rect: "none", "Err" or Ok(rect)

glyf_vars == <<glyph, glyf_bytes, location, glyf_pc, glyf_result,
               number_of_contours, contour, endpoints_reader, flag_parser,
               x_coordinate_reader, y_coordinate_reader, position, point_index,
               contour_point_count, contour_point_index, starting_point,
               last_point_was_off_curve, emitted, rect_result>>

\* Threads that call into the same tables.  Every variable above except the
\* tables and the build profile is a local of one call (a `let` binding or an
\* argument): it belongs to the running thread, and the locals of the threads
\* that are not running are parked.
VARIABLES
    phase,             \* "single": one caller; "alone": the calls run one after
                       \* the other; "together": the calls are interleaved
    thread,            \* the running thread
    parked,            \* the locals of every thread that is not running
    alone              \* the locals each call ended with when it ran alone

conc_vars == <<phase, thread, parked, alone>>

NoHeader == [ok |-> FALSE, seg_count |-> 0, end_codes |-> Err, start_codes |-> Err,
             id_deltas |-> Err, id_range_offsets |-> Err, glyph_ids |-> Err]

\* Mutation of SupportedEncoding: every Microsoft encoding is accepted.
SupportedEncodingAnyMicrosoft(platform_id, encoding_id) ==
    \/ platform_id = PLATFORM_ID_UNICODE
    \/ platform_id = PLATFORM_ID_MICROSOFT

\* The (platform_id, encoding_id) match of the first encoding record.
SupportedEncoding(platform_id, encoding_id) ==
    \/ platform_id = PLATFORM_ID_UNICODE
    \/ platform_id = PLATFORM_ID_MICROSOFT
         /\ encoding_id = MICROSOFT_ENCODING_ID_UNICODE_BMP
    \/ platform_id = PLATFORM_ID_MICROSOFT
         /\ encoding_id = MICROSOFT_ENCODING_ID_UNICODE_UCS4

\* Header checks and parallel array set-up (cmap.rs 44-96): the array
\* readers, or NoHeader when a check, read or jump fails.
ParseHeader(bs) ==
    LET version == ReadU16(bs, 0)
        num_tables == ReadU16(bs, 2)
        platform_id == ReadU16(bs, 4)
        encoding_id == ReadU16(bs, 6)
        offset == ReadU32(bs, 8)
        sub == IF offset = Err THEN Err ELSE Jump(bs, 0, offset)
        format == ReadU16(bs, sub)
        seg_count_x2 == ReadU16(bs, sub + 6)
        range_shift == ReadU16(bs, sub + 12)
        seg_count == seg_count_x2 \div 2
        end_codes == sub + 14
        start_codes == Jump(bs, end_codes, (seg_count + 1) * 2)
        id_deltas == Jump(bs, start_codes, seg_count * 2)
        id_range_offsets == Jump(bs, id_deltas, seg_count * 2)
        glyph_ids == Jump(bs, id_range_offsets, seg_count * 2)
    IN  IF version = Err \/ version # 0 THEN NoHeader
        ELSE IF num_tables = Err \/ platform_id = Err \/ encoding_id = Err THEN NoHeader
        ELSE IF ~SupportedEncoding(platform_id, encoding_id) THEN NoHeader
        ELSE IF offset = Err \/ sub = Err THEN NoHeader
        ELSE IF format = Err \/ format # FORMAT_SEGMENT_MAPPING_TO_DELTA_VALUES
             THEN NoHeader
        ELSE IF seg_count_x2 = Err \/ range_shift = Err THEN NoHeader
        ELSE IF glyph_ids = Err THEN NoHeader
        ELSE [ok |-> TRUE, seg_count |-> seg_count, end_codes |-> end_codes,
              start_codes |-> start_codes, id_deltas |-> id_deltas,
              id_range_offsets |-> id_range_offsets, glyph_ids |-> glyph_ids]

\* Outcome of the segment search besides a segment index.
SearchErr == -2

\* Mutation of SegmentBelow: the comparison also holds at the end-code.
SegmentBelowOrEqual(c, end_code) == c >= end_code

\* `start_codepoint_range > end_code`: the segment lies below the codepoint.
SegmentBelow(c, end_code) == c > end_code

\* `start_codepoint_range < start_code`: the segment lies above the codepoint.
SegmentAbove(c, start_code) == c < start_code

\* The binary search of cmap.rs 116-139 from the bounds (low, high):
\* Some(mid), None, or SearchErr when a jump or read fails.
RECURSIVE BinarySearch(_, _, _, _, _)
BinarySearch(bs, h, low, high, c) ==
    IF ~(low < high) THEN None
    ELSE LET mid == (low + high) \div 2
             end_code == ReadU16At(bs, h.end_codes, mid)
             start_code == ReadU16At(bs, h.start_codes, mid)
         IN  IF end_code = Err THEN SearchErr
             ELSE IF SegmentBelow(c, end_code)
                  THEN BinarySearch(bs, h, mid + 1, high, c)
             ELSE IF start_code = Err THEN SearchErr
             ELSE IF SegmentAbove(c, start_code)
                  THEN BinarySearch(bs, h, low, mid, c)
             ELSE mid

\* `codepoint_range.end as u16` (cmap.rs 113).
EndCodepointRange(end) == AsU16(end)

\* `cmp::min(end_codepoint_range, end_code)` (cmap.rs 167).
ClipEnd(end_codepoint_range, end_code) == Min(end_codepoint_range, end_code)

\* The GlyphRange pushed for a direct-mapped segment (cmap.rs 179-182).
DirectRange(start_codepoint_range, end_codepoint_range, id_delta) ==
    [start |-> WrappingAddU16(start_codepoint_range, id_delta),
     end |-> WrappingAddU16(end_codepoint_range, id_delta)]

\* The byte offset jumped to from glyph_ids (cmap.rs 189).
GlyphIdOffset(id_range_offset, code_offset) ==
    (id_range_offset + code_offset) * 2

\* The GlyphRange pushed for a glyph id read from the array (cmap.rs 191-202).
IndirectRange(glyph_id, id_delta) ==
    IF glyph_id = 0
    THEN [start |-> MISSING_GLYPH, end |-> MISSING_GLYPH]
    ELSE [start |-> WrappingAddU16(glyph_id, id_delta),
          end |-> WrappingAddU16(glyph_id, id_delta)]

\* The `for code_offset in lo..hi` loop of cmap.rs 187-203: the ranges it
\* pushes, with ok FALSE when a jump or read fails.
RECURSIVE IndirectLoop(_, _, _, _, _, _, _)
IndirectLoop(bs, h, id_range_offset, id_delta, lo, hi, acc) ==
    IF ~(lo < hi) THEN [ok |-> TRUE, ranges |-> acc]
    ELSE LET glyph_id ==
                 ReadU16(bs, Jump(bs, h.glyph_ids, GlyphIdOffset(id_range_offset, lo)))
         IN  IF glyph_id = Err THEN [ok |-> FALSE, ranges |-> <<>>]
             ELSE IndirectLoop(bs, h, id_range_offset, id_delta, lo + 1, hi,
                               Append(acc, IndirectRange(glyph_id, id_delta)))

NoSegment == [c |-> Err, index |-> None, start_code |-> Err, end_code |-> Err,
              id_range_offset |-> Err, id_delta |-> Err, clipped_end |-> Err,
              first |-> 0, pushed |-> 0]

MissingRange == [start |-> MISSING_GLYPH, end |-> MISSING_GLYPH]

\* One iteration of the `while` loop for a start within the BMP
\* (cmap.rs 112-203): the next pc, the new codepoint_range.start, the ranges
\* pushed and the locals.
Iteration(bs, h, checks, range, n) ==
    LET c == AsU16(range.start)
        e16 == EndCodepointRange(range.end)
        index == BinarySearch(bs, h, 0, h.seg_count, c)
        start_code == ReadU16At(bs, h.start_codes, index)
        end_code == ReadU16At(bs, h.end_codes, index)
        id_range_offset == ReadU16At(bs, h.id_range_offsets, index)
        id_delta == ReadU16At(bs, h.id_deltas, index)
        clipped == ClipEnd(e16, end_code)
        next_start == AsU16(clipped + 1)
        start_code_offset == AsU16(c - start_code)
        end_code_offset == AsU16(clipped - start_code)
        hi == AsU16(end_code_offset + 1)
        overflow == \/ clipped + 1 > U16_MAX
                    \/ c < start_code
                    \/ clipped < start_code
                    \/ id_range_offset # 0 /\ end_code_offset + 1 > U16_MAX
        singles == IndirectLoop(bs, h, id_range_offset, id_delta,
                                start_code_offset, hi, <<>>)
        locals == [c |-> c, index |-> index, start_code |-> start_code,
                   end_code |-> end_code, id_range_offset |-> id_range_offset,
                   id_delta |-> id_delta, clipped_end |-> clipped,
                   first |-> n, pushed |-> 0]
        failed == [pc |-> "returned", result |-> "Err", start |-> range.start,
                   push |-> <<>>, seg |-> [NoSegment EXCEPT !.c = c, !.first = n]]
    IN  IF index = SearchErr THEN failed
        ELSE IF index = None
        THEN [pc |-> "while", result |-> "none", start |-> range.start + 1,
              push |-> <<MissingRange>>,
              seg |-> [NoSegment EXCEPT !.c = c, !.first = n, !.pushed = 1]]
        ELSE IF start_code = Err \/ end_code = Err
                \/ id_range_offset = Err \/ id_delta = Err
        THEN [failed EXCEPT !.seg.index = index]
        ELSE IF checks /\ overflow
        THEN [pc |-> "panicked", result |-> "none", start |-> range.start,
              push |-> <<>>, seg |-> locals]
        ELSE IF id_range_offset = 0
        THEN [pc |-> "while", result |-> "none", start |-> next_start,
              push |-> <<DirectRange(c, clipped, id_delta)>>,
              seg |-> [locals EXCEPT !.pushed = 1]]
        ELSE IF ~singles.ok
        THEN [failed EXCEPT !.seg = locals]
        ELSE [pc |-> "while", result |-> "none", start |-> next_start,
              push |-> singles.ranges,
              seg |-> [locals EXCEPT !.pushed = Len(singles.ranges)]]

\* ------------------------------------------------------------ cmap tables
\* Big-endian encodings.
B16(x) == <<x \div 256, x % 256>>
B32(x) == B16(x \div Pow16) \o B16(x % Pow16)

RECURSIVE B16s(_)
B16s(xs) == IF xs = <<>> THEN <<>> ELSE B16(Head(xs)) \o B16s(Tail(xs))

\* A cmap table with one encoding record and one subtable at offset 12 whose
\* segments are the records segs and whose glyph-id array is gids.
MkCmap(version, platform_id, encoding_id, format, segs, gids) ==
    LET n == Len(segs)
    IN  B16(version) \o B16(1) \o B16(platform_id) \o B16(encoding_id) \o B32(12)
        \o B16(format) \o B16(16 + 8 * n + 2 * Len(gids)) \o B16(0)
        \o B16(2 * n) \o B16(0) \o B16(0) \o B16(0)
        \o B16s([i \in 1..n |-> segs[i].end_code]) \o B16(0)
        \o B16s([i \in 1..n |-> segs[i].start_code])
        \o B16s([i \in 1..n |-> segs[i].id_delta])
        \o B16s([i \in 1..n |-> segs[i].id_range_offset])
        \o B16s(gids)

Seg(s, e, d, r) == [start_code |-> s, end_code |-> e, id_delta |-> d,
                    id_range_offset |-> r]

\* 0x10..0x12 direct with a delta that wraps past glyph 0xFFFF, 0x20..0x22
\* direct, 0x23..0x24 through the glyph-id array, and the 0xFFFF sentinel.
SegsSentinel == <<Seg(16, 18, 65519, 0), Seg(32, 34, 5, 0), Seg(35, 36, 1, 2),
                  Seg(65535, 65535, 1, 0)>>

\* The same without the sentinel and the wrapping segment.
SegsNoSentinel == <<Seg(32, 34, 5, 0), Seg(35, 36, 1, 2)>>

\* Segments that are not in ascending order.
SegsUnsorted == <<Seg(35, 36, 1, 2), Seg(32, 34, 5, 0), Seg(16, 18, 3, 0)>>

GlyphIdArray == <<0, 5, 0, 7, 9>>

CmapSentinel == MkCmap(0, PLATFORM_ID_MICROSOFT, MICROSOFT_ENCODING_ID_UNICODE_BMP,
                       4, SegsSentinel, GlyphIdArray)
CmapNoSentinel == MkCmap(0, PLATFORM_ID_UNICODE, 3, 4, SegsNoSentinel, GlyphIdArray)
CmapUnsorted == MkCmap(0, PLATFORM_ID_UNICODE, 3, 4, SegsUnsorted, GlyphIdArray)
CmapBadVersion == MkCmap(1, PLATFORM_ID_UNICODE, 3, 4, SegsNoSentinel, <<>>)
CmapBadPlatform == MkCmap(0, 1, 0, 4, SegsNoSentinel, <<>>)
CmapBadFormat == MkCmap(0, PLATFORM_ID_MICROSOFT, MICROSOFT_ENCODING_ID_UNICODE_UCS4,
                        12, SegsNoSentinel, <<>>)
\* Microsoft platform with the Symbol encoding (0), otherwise well-formed.
CmapBadEncoding == MkCmap(0, PLATFORM_ID_MICROSOFT, 0, 4, SegsNoSentinel, GlyphIdArray)

CmapTables == {CmapSentinel, CmapNoSentinel, CmapUnsorted, CmapBadVersion, CmapBadPlatform,
               CmapBadFormat, CmapBadEncoding}

\* Every prefix of a table: the table itself and its truncations.
Prefixes(bs) == {SubSeq(bs, 1, n) : n \in 0..Len(bs)}

Range(s, e) == [start |-> s, end |-> e]

\* Requested codepoint ranges, each with start <= end.
RequestRanges == {Range(31, 37), Range(16, 18), Range(34, 35), Range(65534, 65535),
                  Range(65534, 65537), Range(65536, 65537), Range(33, 65569)}

RequestLists == UNION {[1..n -> RequestRanges] : n \in 0..MaxRanges}

\* ------------------------------------------------------------ cmap actions
CmapInit ==
    /\ overflow_checks \in BOOLEAN
    /\ cmap_bytes \in UNION {Prefixes(t) : t \in CmapTables}
    /\ codepoint_ranges \in RequestLists
    /\ cmap_pc = "entry"
    /\ hdr = NoHeader
    /\ range_index = 0
    /\ codepoint_range = Range(0, 0)
    /\ glyph_ranges = <<>>
    /\ segment = NoSegment
    /\ cmap_result = "none"
    \* no call on a glyf table
    /\ glyph = [contours |-> <<>>, defect |-> "none", record |-> <<>>]
    /\ glyf_bytes = <<>>
    /\ location = Err
    /\ glyf_pc = "idle"
    /\ glyf_result = "none"
    /\ number_of_contours = 0
    /\ contour = 0
    /\ endpoints_reader = Err
    /\ flag_parser = [next |-> Err, current |-> 0, repeats_left |-> 0]
    /\ x_coordinate_reader = Err
    /\ y_coordinate_reader = Err
    /\ position = [x |-> 0, y |-> 0]
    /\ point_index = 0
    /\ contour_point_count = 0
    /\ contour_point_index = 0
    /\ starting_point = [x |-> 0, y |-> 0]
    /\ last_point_was_off_curve = FALSE
    /\ emitted = <<>>
    /\ rect_result = [tag |-> "idle", origin |-> [x |-> 0, y |-> 0], size |-> [x |-> 0, y |-> 0]]
    \* a single caller
    /\ phase = "single"
    /\ thread = 1
    /\ parked = <<>>
    /\ alone = <<>>

\* cmap.rs 44-99: the header checks, the array set-up and the empty Vec.
CmapEntry ==
    /\ cmap_pc = "entry"
    /\ LET h == ParseHeader(cmap_bytes)
       IN  /\ hdr' = h
           /\ IF h.ok
              THEN /\ cmap_pc' = "for"
                   /\ range_index' = 1
                   /\ cmap_result' = cmap_result
              ELSE /\ cmap_pc' = "returned"
                   /\ range_index' = range_index
                   /\ cmap_result' = "Err"
    /\ UNCHANGED <<overflow_checks, cmap_bytes, codepoint_ranges, codepoint_range,
                   glyph_ranges, segment>>
    /\ UNCHANGED glyf_vars
    /\ UNCHANGED conc_vars

\* cmap.rs 100-101: the `for` loop takes a copy of the next range.
ForNext ==
    /\ cmap_pc = "for"
    /\ range_index <= Len(codepoint_ranges)
    /\ codepoint_range' = codepoint_ranges[range_index]
    /\ segment' = NoSegment
    /\ cmap_pc' = "while"
    /\ UNCHANGED <<overflow_checks, cmap_bytes, codepoint_ranges, hdr, range_index,
                   glyph_ranges, cmap_result>>
    /\ UNCHANGED glyf_vars
    /\ UNCHANGED conc_vars

\* cmap.rs 102: the `while` condition fails, on to the next range.
WhileExit ==
    /\ cmap_pc = "while"
    /\ ~(codepoint_range.end >= codepoint_range.start)
    /\ range_index' = range_index + 1
    /\ cmap_pc' = "for"
    /\ UNCHANGED <<overflow_checks, cmap_bytes, codepoint_ranges, hdr,
                   codepoint_range, glyph_ranges, segment, cmap_result>>
    /\ UNCHANGED glyf_vars
    /\ UNCHANGED conc_vars

\* cmap.rs 103-110: a start beyond the BMP.
StepBeyondBMP ==
    /\ cmap_pc = "while"
    /\ codepoint_range.end >= codepoint_range.start
    /\ codepoint_range.start > U16_MAX
    /\ Len(glyph_ranges) < MaxOut
    /\ codepoint_range' = [codepoint_range EXCEPT !.start = @ + 1]
    /\ glyph_ranges' = Append(glyph_ranges, MissingRange)
    /\ segment' = [NoSegment EXCEPT !.first = Len(glyph_ranges), !.pushed = 1]
    /\ UNCHANGED <<overflow_checks, cmap_bytes, codepoint_ranges, cmap_pc, hdr,
                   range_index, cmap_result>>
    /\ UNCHANGED glyf_vars
    /\ UNCHANGED conc_vars

\* cmap.rs 112-203: search the segment of a start within the BMP and map
\* the part of the range it covers.
StepLookup ==
    /\ cmap_pc = "while"
    /\ codepoint_range.end >= codepoint_range.start
    /\ ~(codepoint_range.start > U16_MAX)
    /\ Len(glyph_ranges) < MaxOut
    /\ LET it == Iteration(cmap_bytes, hdr, overflow_checks, codepoint_range,
                           Len(glyph_ranges))
       IN  /\ cmap_pc' = it.pc
           /\ cmap_result' = it.result
           /\ codepoint_range' = [codepoint_range EXCEPT !.start = it.start]
           /\ glyph_ranges' = glyph_ranges \o it.push
           /\ segment' = it.seg
    /\ UNCHANGED <<overflow_checks, cmap_bytes, codepoint_ranges, hdr, range_index>>
    /\ UNCHANGED glyf_vars
    /\ UNCHANGED conc_vars

\* cmap.rs 207: Ok(glyph_ranges).
CmapReturn ==
    /\ cmap_pc = "for"
    /\ range_index > Len(codepoint_ranges)
    /\ cmap_pc' = "returned"
    /\ cmap_result' = "Ok"
    /\ UNCHANGED <<overflow_checks, cmap_bytes, codepoint_ranges, hdr, range_index,
                   codepoint_range, glyph_ranges, segment>>
    /\ UNCHANGED glyf_vars
    /\ UNCHANGED conc_vars

CmapNext ==
    \/ CmapEntry
    \/ ForNext
    \/ WhileExit
    \/ StepBeyondBMP
    \/ StepLookup
    \/ CmapReturn

\* ======================================================================
\*                      glyf: GlyfTable (glyf.rs)
\* ======================================================================
\* bitflags Flags
ON_CURVE == 1
X_SHORT_VECTOR == 2
Y_SHORT_VECTOR == 4
REPEAT == 8
THIS_X_IS_SAME == 16
THIS_Y_IS_SAME == 32

\* Flags::from_bits_truncate
FromBitsTruncate(byte) == byte % 64

\* Flags::contains for a single-bit flag
Contains(flags, bit) == (flags \div bit) % 2 = 1

I16_MIN == -32768
I16_MAX == 32767

FitsI16(x) == I16_MIN <= x /\ x <= I16_MAX

\* i16 division by 2, which truncates toward zero
HalfFloor(x) == x \div 2
Half(x) == IF x >= 0 THEN x \div 2 ELSE -((-x) \div 2)

Pt(x, y) == [x |-> x, y |-> y]

\* ReadBytesExt::read_i16::<BigEndian>: the value or Err; ok tells which.
ReadI16(bs, pos) ==
    LET v == ReadU16(bs, pos)
    IN  IF v = Err THEN [ok |-> FALSE, value |-> 0] ELSE [ok |-> TRUE, value |-> AsI16(v)]

\* calculate_size_of_x_coordinates (glyf.rs 164-185): the reader after the
\* flags and the x-coordinate length, an Err, or a panic.
RECURSIVE CalculateSizeOfXCoordinates(_, _, _, _, _)
CalculateSizeOfXCoordinates(bs, reader, x_coordinate_length, points_left, checks) ==
    IF ~(points_left > 0)
    THEN [st |-> "ok", reader |-> reader, length |-> x_coordinate_length]
    ELSE LET byte == ReadU8(bs, reader)
             flags == FromBitsTruncate(byte)
             count == ReadU8(bs, reader + 1)
             repeat_count == IF ~Contains(flags, REPEAT) THEN 1 ELSE count + 1
             after == IF ~Contains(flags, REPEAT) THEN reader + 1 ELSE reader + 2
             length == IF Contains(flags, X_SHORT_VECTOR)
                       THEN x_coordinate_length + repeat_count
                       ELSE IF ~Contains(flags, THIS_X_IS_SAME)
                       THEN x_coordinate_length + repeat_count * 2
                       ELSE x_coordinate_length
             left == points_left - repeat_count
         IN  IF byte = Err THEN [st |-> "err", reader |-> Err, length |-> 0]
             ELSE IF Contains(flags, REPEAT) /\ count = Err
             THEN [st |-> "err", reader |-> Err, length |-> 0]
             ELSE IF checks /\ (length > U16_MAX \/ left < 0)
             THEN [st |-> "panic", reader |-> Err, length |-> 0]
             ELSE CalculateSizeOfXCoordinates(bs, after, AsU16(length), AsU16(left),
                                              checks)

\* Mutation of FlagParserNext: the last repeat of a run is not applied.
FlagParserNextShortRun(bs, parser) ==
    IF parser.repeats_left > 1
    THEN [ok |-> TRUE, parser |-> [parser EXCEPT !.repeats_left = @ - 1]]
    ELSE LET current == ReadU8(bs, parser.next)
             flags == FromBitsTruncate(current)
             repeats == ReadU8(bs, parser.next + 1)
         IN  IF current = Err THEN [ok |-> FALSE, parser |-> parser]
             ELSE IF Contains(flags, REPEAT)
             THEN IF repeats = Err THEN [ok |-> FALSE, parser |-> parser]
                  ELSE [ok |-> TRUE,
                        parser |-> [next |-> parser.next + 2, current |-> current,
                                    repeats_left |-> repeats]]
             ELSE [ok |-> TRUE,
                   parser |-> [next |-> parser.next + 1, current |-> current,
                               repeats_left |-> 0]]

\* FlagParser::next (glyf.rs 206-224): the parser after the call; ok is FALSE
\* when a byte is missing.
FlagParserNext(bs, parser) ==
    IF parser.repeats_left > 0
    THEN [ok |-> TRUE, parser |-> [parser EXCEPT !.repeats_left = @ - 1]]
    ELSE LET current == ReadU8(bs, parser.next)
             flags == FromBitsTruncate(current)
             repeats == ReadU8(bs, parser.next + 1)
         IN  IF current = Err THEN [ok |-> FALSE, parser |-> parser]
             ELSE IF Contains(flags, REPEAT)
             THEN IF repeats = Err THEN [ok |-> FALSE, parser |-> parser]
                  ELSE [ok |-> TRUE,
                        parser |-> [next |-> parser.next + 2, current |-> current,
                                    repeats_left |-> repeats]]
             ELSE [ok |-> TRUE,
                   parser |-> [next |-> parser.next + 1, current |-> current,
                               repeats_left |-> 0]]

NoParser == [next |-> Err, current |-> 0, repeats_left |-> 0]

\* FlagParser::new (glyf.rs 195-203): `&buffer[0]` panics on an empty buffer.
FlagParserNew(bs, buffer) ==
    IF ~(buffer < Len(bs)) THEN [st |-> "panic", parser |-> NoParser]
    ELSE LET first == FlagParserNext(bs, [next |-> buffer, current |-> bs[buffer + 1],
                                           repeats_left |-> 0])
         IN  IF first.ok THEN [st |-> "ok", parser |-> first.parser]
             ELSE [st |-> "err", parser |-> NoParser]

\* One coordinate delta (glyf.rs 94-101 for x, 102-109 for y): the delta and
\* the coordinate reader after it; ok is FALSE when a read fails.
ReadDelta(bs, reader, flags, short_vector, is_same) ==
    IF Contains(flags, short_vector)
    THEN LET v == ReadU8(bs, reader)
         IN  IF v = Err THEN [ok |-> FALSE, delta |-> 0, reader |-> reader]
             ELSE [ok |-> TRUE, reader |-> reader + 1,
                   delta |-> IF ~Contains(flags, is_same) THEN -v ELSE v]
    ELSE IF ~Contains(flags, is_same)
    THEN LET v == ReadI16(bs, reader)
         IN  IF ~v.ok THEN [ok |-> FALSE, delta |-> 0, reader |-> reader]
             ELSE [ok |-> TRUE, reader |-> reader + 2, delta |-> v.value]
    ELSE [ok |-> TRUE, reader |-> reader, delta |-> 0]

\* `last_point_was_off_curve && !flags.contains(ON_CURVE)` (glyf.rs 111).
ImpliedPointNeeded(last_off_curve, flags) ==
    last_off_curve /\ ~Contains(flags, ON_CURVE)

\* Mutation of ImpliedPosition: the halving rounds down (`>> 1`).
ImpliedPositionShift(pos, delta) ==
    Pt(pos.x + HalfFloor(delta.x), pos.y + HalfFloor(delta.y))

\* `position + delta / 2` (glyf.rs 113), before any wrapping.
ImpliedPosition(pos, delta) ==
    Pt(pos.x + Half(delta.x), pos.y + Half(delta.y))

\* A Point handed to the callback; site is the callback call that made it:
\* "implied" (glyf.rs 112), "stored" (126) or "closing" (137).
Point(pos, on_curve, first, site) ==
    [position |-> pos, on_curve |-> on_curve, first_point_in_contour |-> first,
     site |-> site]

WrapPt(p) == Pt(AsI16(p.x), AsI16(p.y))
FitsPt(p) == FitsI16(p.x) /\ FitsI16(p.y)

\* Stand-in for `size_of::<u16>() * (0usize - 1)` after wrapping: 2^w - 2 for
\* a w-bit usize, beyond the length of any slice.
WRAPPED_ENDPOINTS_OFFSET == 2147483646

NoSetup == [st |-> "err", number_of_contours |-> 0, endpoints_reader |-> Err,
            flag_parser |-> NoParser, x_coordinate_reader |-> Err,
            y_coordinate_reader |-> Err]

\* for_each_point up to the contour loop (glyf.rs 52-84): the readers set
\* up, an Err, or a panic.
Setup(bs, offset, checks) ==
    LET start == Jump(bs, 0, offset)
        contours == ReadI16(bs, start)
        endpoints == Jump(bs, start + 2, 4 * 2)
        skip == IF contours.value = 0 THEN WRAPPED_ENDPOINTS_OFFSET
                ELSE 2 * (contours.value - 1)
        last == Jump(bs, endpoints, skip)
        last_endpoint == ReadU16(bs, last)
        number_of_points == last_endpoint + 1
        instruction_length == ReadU16(bs, last + 2)
        flags_reader == Jump(bs, last + 4, instruction_length)
        size == CalculateSizeOfXCoordinates(bs, flags_reader, 0,
                                            AsU16(number_of_points), checks)
        parser == FlagParserNew(bs, flags_reader)
        y_reader == Jump(bs, size.reader, size.length)
    IN  IF offset = Err \/ start = Err THEN NoSetup
        ELSE IF ~contours.ok \/ contours.value < 0 THEN NoSetup
        ELSE IF endpoints = Err THEN NoSetup
        ELSE IF checks /\ contours.value = 0 THEN [NoSetup EXCEPT !.st = "panic"]
        ELSE IF last = Err \/ last_endpoint = Err THEN NoSetup
        ELSE IF checks /\ number_of_points > U16_MAX THEN [NoSetup EXCEPT !.st = "panic"]
        ELSE IF instruction_length = Err \/ flags_reader = Err THEN NoSetup
        ELSE IF size.st # "ok" THEN [NoSetup EXCEPT !.st = size.st]
        ELSE IF parser.st # "ok" THEN [NoSetup EXCEPT !.st = parser.st]
        ELSE IF y_reader = Err THEN NoSetup
        ELSE [st |-> "ok", number_of_contours |-> contours.value,
              endpoints_reader |-> endpoints, flag_parser |-> parser.parser,
              x_coordinate_reader |-> size.reader, y_coordinate_reader |-> y_reader]

\* `endpoint - point_index + 1` in u16 (glyf.rs 86-87), before any wrapping
\* of the final sum; overflow tells whether a step leaves u16.
ContourPointCount(endpoint, index) ==
    [overflow |-> endpoint - index < 0 \/ AsU16(endpoint - index) + 1 > U16_MAX,
     value |-> AsU16(AsU16(endpoint - index) + 1)]

\* bounding_rect (glyf.rs 147-158).
NoRect == [tag |-> "none", origin |-> Pt(0, 0), size |-> Pt(0, 0)]

BoundingRectOf(bs, offset, checks) ==
    LET start == Jump(bs, 0, offset)
        contours == ReadI16(bs, start)
        x_min == ReadI16(bs, start + 2)
        y_min == ReadI16(bs, start + 4)
        x_max == ReadI16(bs, start + 6)
        y_max == ReadI16(bs, start + 8)
        width == x_max.value - x_min.value
        height == y_max.value - y_min.value
    IN  IF offset = Err \/ start = Err THEN [NoRect EXCEPT !.tag = "Err"]
        ELSE IF ~contours.ok \/ ~x_min.ok \/ ~y_min.ok \/ ~x_max.ok \/ ~y_max.ok
        THEN [NoRect EXCEPT !.tag = "Err"]
        ELSE IF checks /\ (~FitsI16(width) \/ ~FitsI16(height))
        THEN [NoRect EXCEPT !.tag = "panicked"]
        ELSE [tag |-> "Ok", origin |-> Pt(x_min.value, y_min.value),
              size |-> Pt(AsI16(width), AsI16(height))]

\* ------------------------------------------------------------ glyf tables
\* A stored point of a glyph description: its deltas and its on-curve flag.
P(dx, dy, on) == [dx |-> dx, dy |-> dy, on |-> on]

Abs(x) == IF x < 0 THEN -x ELSE x

\* The flag byte that encodes a stored point: a zero delta as "same", a
\* delta of magnitude up to 255 as a short vector, any other as an i16.
AxisFlags(d, short_vector, is_same) ==
    IF d = 0 THEN is_same
    ELSE IF Abs(d) <= 255 THEN short_vector + (IF d > 0 THEN is_same ELSE 0)
    ELSE 0

FlagOf(p) == (IF p.on THEN ON_CURVE ELSE 0)
             + AxisFlags(p.dx, X_SHORT_VECTOR, THIS_X_IS_SAME)
             + AxisFlags(p.dy, Y_SHORT_VECTOR, THIS_Y_IS_SAME)

AxisBytes(d) == IF d = 0 THEN <<>>
                ELSE IF Abs(d) <= 255 THEN <<Abs(d)>>
                ELSE B16(d % Pow16)

RECURSIVE Concat(_)
Concat(seqs) == IF seqs = <<>> THEN <<>> ELSE Head(seqs) \o Concat(Tail(seqs))

\* Length of the run of equal flags that starts fs.
RECURSIVE RunLength(_)
RunLength(fs) ==
    IF Len(fs) >= 2 /\ fs[1] = fs[2] THEN 1 + RunLength(Tail(fs)) ELSE 1

\* The flag array, with runs of equal flags as (flag | REPEAT, count).
RECURSIVE RunLengthEncode(_)
RunLengthEncode(fs) ==
    IF fs = <<>> THEN <<>>
    ELSE LET n == RunLength(fs)
         IN  (IF n = 1 THEN <<fs[1]>> ELSE <<fs[1] + REPEAT, n - 1>>)
             \o RunLengthEncode(SubSeq(fs, n + 1, Len(fs)))

\* endPtsOfContours of contours with the given point counts.
RECURSIVE EndPoints(_, _)
EndPoints(counts, before) ==
    IF counts = <<>> THEN <<>>
    ELSE <<before + Head(counts) - 1>> \o EndPoints(Tail(counts), before + Head(counts))

\* A glyf record from its fields.
MkRecord(contours, end_points, instructions, flags, xs, ys) ==
    B16(contours % Pow16) \o B16(0) \o B16((-2) % Pow16) \o B16(10) \o B16(20)
    \o B16s(end_points) \o B16(Len(instructions)) \o instructions
    \o flags \o xs \o ys

\* The record of a simple glyph given as a sequence of contours, each a
\* sequence of stored points.
MkSimple(contours) ==
    LET points == Concat(contours)
        n == Len(points)
    IN  MkRecord(Len(contours),
                 EndPoints([i \in 1..Len(contours) |-> Len(contours[i])], 0),
                 <<7>>,
                 RunLengthEncode([i \in 1..n |-> FlagOf(points[i])]),
                 Concat([i \in 1..n |-> AxisBytes(points[i].dx)]),
                 Concat([i \in 1..n |-> AxisBytes(points[i].dy)]))

\* A glyph description: the contours (when the record is a simple glyph
\* built from them), what is wrong with the record, and the record.
Simple(contours) ==
    [contours |-> contours, defect |-> "none", record |-> MkSimple(contours)]

Defective(defect, record) ==
    [contours |-> <<>>, defect |-> defect, record |-> record]

Triangle == <<<<P(0, 0, TRUE), P(3, 0, TRUE), P(-3, 4, TRUE)>>>>
TwoContours == <<<<P(1, 1, TRUE), P(2, 0, TRUE)>>,
                 <<P(300, -2, TRUE), P(0, 5, TRUE), P(0, 5, TRUE)>>>>
OffCurvePair == <<<<P(3, 3, FALSE), P(-3, 1, FALSE), P(5, 4, FALSE), P(1, 1, TRUE)>>>>
OffCurveAcross == <<<<P(1, 0, TRUE), P(1, 1, FALSE)>>,
                    <<P(2, 2, FALSE), P(-1, -1, FALSE), P(0, 1, TRUE)>>>>
SinglePoint == <<<<P(0, 0, TRUE)>>>>
ShortThenSame == <<<<P(8, 0, TRUE), P(0, 0, TRUE)>>>>
FarApart == <<<<P(1, 0, TRUE), P(1, 0, TRUE), P(30000, 0, FALSE),
                P(30000, 3, FALSE)>>>>
\* A run of three equal flags that crosses a contour boundary, then a long
\* x delta.
LongRun == <<<<P(2, -1, TRUE), P(2, -1, TRUE)>>, <<P(2, -1, TRUE), P(-300, 0, TRUE)>>>>

Glyphs ==
    {Simple(Triangle), Simple(TwoContours), Simple(OffCurvePair),
     Simple(OffCurveAcross), Simple(SinglePoint), Simple(ShortThenSame),
     Simple(LongRun),
     [Simple(FarApart) EXCEPT !.defect = "position"],
     Simple(<<>>),
     Defective("composite", MkRecord(-1, <<>>, <<>>, <<>>, <<>>, <<>>)),
     Defective("endpoints", MkRecord(2, <<1, 0>>, <<>>, <<49, 49, 49>>, <<>>, <<>>)),
     Defective("endpoints", MkRecord(2, <<1, 1>>, <<>>, <<49, 49, 49>>, <<>>, <<>>)),
     Defective("last_endpoint", MkRecord(1, <<65535>>, <<>>, <<49, 49>>, <<>>, <<>>)),
     Defective("last_endpoint", MkRecord(1, <<65535>>, <<>>, <<>>, <<>>, <<>>)),
     Defective("repeat_run", MkRecord(1, <<1>>, <<>>, <<57, 3, 49>>, <<>>, <<>>))}

\* Bytes that follow the glyph record in the table.
Trailer == <<8, 0>>

\* The offsets at which the table holds the record.
Offsets == {0, 2}

Zeros(n) == [i \in 1..n |-> 0]

\* The table is complete up to the end of the glyph record.
WholeRecord == location # Err /\ Len(glyf_bytes) >= location + Len(glyph.record)

\* ------------------------------------------------------------ glyf actions
GlyfInit ==
    /\ glyph \in Glyphs
    /\ location \in Offsets \cup {Err}
    /\ glyf_bytes \in Prefixes(Zeros(IF location = Err THEN 0 ELSE location)
                               \o glyph.record \o Trailer)
    /\ glyf_pc = "entry"
    /\ glyf_result = "none"
    /\ number_of_contours = 0
    /\ contour = 0
    /\ endpoints_reader = Err
    /\ flag_parser = NoParser
    /\ x_coordinate_reader = Err
    /\ y_coordinate_reader = Err
    /\ position = Pt(0, 0)
    /\ point_index = 0
    /\ contour_point_count = 0
    /\ contour_point_index = 0
    /\ starting_point = Pt(0, 0)
    /\ last_point_was_off_curve = FALSE
    /\ emitted = <<>>
    /\ rect_result = NoRect
    \* the build's overflow checks are on or off
    /\ overflow_checks \in BOOLEAN
    \* no call on a cmap table
    /\ cmap_bytes = <<>>
    /\ codepoint_ranges = <<>>
    /\ cmap_pc = "idle"
    /\ hdr = NoHeader
    /\ range_index = 0
    /\ codepoint_range = Range(0, 0)
    /\ glyph_ranges = <<>>
    /\ segment = NoSegment
    /\ cmap_result = "none"
    \* a single caller
    /\ phase = "single"
    /\ thread = 1
    /\ parked = <<>>
    /\ alone = <<>>

\* glyf.rs 52-84: locate the record and set up the streams.
ForEachPointEntry ==
    /\ glyf_pc = "entry"
    /\ LET s == Setup(glyf_bytes, location, overflow_checks)
       IN  /\ glyf_pc' = CASE s.st = "ok" -> "contours"
                           [] s.st = "err" -> "returned"
                           [] OTHER -> "panicked"
           /\ glyf_result' = IF s.st = "err" THEN "Err" ELSE glyf_result
           /\ number_of_contours' = s.number_of_contours
           /\ endpoints_reader' = s.endpoints_reader
           /\ flag_parser' = s.flag_parser
           /\ x_coordinate_reader' = s.x_coordinate_reader
           /\ y_coordinate_reader' = s.y_coordinate_reader
    /\ UNCHANGED <<glyph, glyf_bytes, location, contour, position, point_index,
                   contour_point_count, contour_point_index, starting_point,
                   last_point_was_off_curve, emitted, rect_result>>
    /\ UNCHANGED cmap_vars
    /\ UNCHANGED conc_vars

\* glyf.rs 85-88: the next contour's point count.
BeginContour ==
    /\ glyf_pc = "contours"
    /\ contour < number_of_contours
    /\ LET endpoint == ReadU16(glyf_bytes, endpoints_reader)
           count == ContourPointCount(endpoint, point_index)
       IN  IF endpoint = Err
           THEN /\ glyf_pc' = "returned"
                /\ glyf_result' = "Err"
                /\ UNCHANGED <<endpoints_reader, contour_point_count>>
           ELSE IF overflow_checks /\ count.overflow
           THEN /\ glyf_pc' = "panicked"
                /\ UNCHANGED <<glyf_result, endpoints_reader, contour_point_count>>
           ELSE /\ glyf_pc' = "points"
                /\ endpoints_reader' = endpoints_reader + 2
                /\ contour_point_count' = count.value
                /\ UNCHANGED glyf_result
    /\ starting_point' = Pt(0, 0)
    /\ last_point_was_off_curve' = FALSE
    /\ contour_point_index' = 0
    /\ UNCHANGED <<glyph, glyf_bytes, location, number_of_contours, contour,
                   flag_parser, x_coordinate_reader, y_coordinate_reader, position,
                   point_index, emitted, rect_result>>
    /\ UNCHANGED cmap_vars
    /\ UNCHANGED conc_vars

\* glyf.rs 89-134: decode one stored point and hand it to the callback,
\* after the implied point when the previous point and this one are off-curve.
DecodePoint ==
    /\ glyf_pc = "points"
    /\ contour_point_index < contour_point_count
    /\ LET flags == FromBitsTruncate(flag_parser.current)
           parser == FlagParserNext(glyf_bytes, flag_parser)
           x == ReadDelta(glyf_bytes, x_coordinate_reader, flags,
                          X_SHORT_VECTOR, THIS_X_IS_SAME)
           y == ReadDelta(glyf_bytes, y_coordinate_reader, flags,
                          Y_SHORT_VECTOR, THIS_Y_IS_SAME)
           delta == Pt(x.delta, y.delta)
           on_curve == Contains(flags, ON_CURVE)
           needed == ImpliedPointNeeded(last_point_was_off_curve, flags)
           implied == ImpliedPosition(position, delta)
           moved == Pt(position.x + delta.x, position.y + delta.y)
           first == contour_point_index = 0
           with_implied == IF needed
                           THEN Append(emitted, Point(WrapPt(implied), TRUE, FALSE,
                                                      "implied"))
                           ELSE emitted
       IN  IF ~parser.ok \/ ~x.ok \/ ~y.ok
           THEN /\ glyf_pc' = "returned"
                /\ glyf_result' = "Err"
                /\ UNCHANGED <<flag_parser, x_coordinate_reader, y_coordinate_reader,
                               position, point_index, contour_point_index,
                               starting_point, last_point_was_off_curve, emitted>>
           ELSE IF overflow_checks /\ needed /\ ~FitsPt(implied)
           THEN /\ glyf_pc' = "panicked"
                /\ UNCHANGED <<glyf_result, flag_parser, x_coordinate_reader,
                               y_coordinate_reader, position, point_index,
                               contour_point_index, starting_point,
                               last_point_was_off_curve, emitted>>
           ELSE IF overflow_checks /\ (~FitsPt(moved) \/ point_index + 1 > U16_MAX)
           THEN /\ glyf_pc' = "panicked"
                /\ emitted' = with_implied
                /\ UNCHANGED <<glyf_result, flag_parser, x_coordinate_reader,
                               y_coordinate_reader, position, point_index,
                               contour_point_index, starting_point,
                               last_point_was_off_curve>>
           ELSE /\ flag_parser' = parser.parser
                /\ x_coordinate_reader' = x.reader
                /\ y_coordinate_reader' = y.reader
                /\ position' = WrapPt(moved)
                /\ starting_point' = IF first THEN WrapPt(moved) ELSE starting_point
                /\ emitted' = Append(with_implied,
                                     Point(WrapPt(moved), on_curve, first, "stored"))
                /\ last_point_was_off_curve' = ~on_curve
                /\ point_index' = AsU16(point_index + 1)
                /\ contour_point_index' = contour_point_index + 1
                /\ UNCHANGED <<glyf_pc, glyf_result>>
    /\ UNCHANGED <<glyph, glyf_bytes, location, number_of_contours, contour,
                   endpoints_reader, contour_point_count, rect_result>>
    /\ UNCHANGED cmap_vars
    /\ UNCHANGED conc_vars

\* glyf.rs 136-141: close the path.
CloseContour ==
    /\ glyf_pc = "points"
    /\ ~(contour_point_index < contour_point_count)
    /\ emitted' = Append(emitted, Point(starting_point, TRUE, FALSE, "closing"))
    /\ contour' = contour + 1
    /\ glyf_pc' = "contours"
    /\ UNCHANGED <<glyph, glyf_bytes, location, glyf_result, number_of_contours,
                   endpoints_reader, flag_parser, x_coordinate_reader,
                   y_coordinate_reader, position, point_index, contour_point_count,
                   contour_point_index, starting_point, last_point_was_off_curve,
                   rect_result>>
    /\ UNCHANGED cmap_vars
    /\ UNCHANGED conc_vars

\* glyf.rs 144: Ok(()).
ForEachPointReturn ==
    /\ glyf_pc = "contours"
    /\ ~(contour < number_of_contours)
    /\ glyf_pc' = "returned"
    /\ glyf_result' = "Ok"
    /\ UNCHANGED <<glyph, glyf_bytes, location, number_of_contours, contour,
                   endpoints_reader, flag_parser, x_coordinate_reader,
                   y_coordinate_reader, position, point_index, contour_point_count,
                   contour_point_index, starting_point, last_point_was_off_curve,
                   emitted, rect_result>>
    /\ UNCHANGED cmap_vars
    /\ UNCHANGED conc_vars

\* glyf.rs 147-158: bounding_rect, a call of its own on the same table.
BoundingRect ==
    /\ rect_result.tag = "none"
    /\ rect_result' = BoundingRectOf(glyf_bytes, location, overflow_checks)
    /\ UNCHANGED <<glyph, glyf_bytes, location, glyf_pc, glyf_result,
                   number_of_contours, contour, endpoints_reader, flag_parser,
                   x_coordinate_reader, y_coordinate_reader, position, point_index,
                   contour_point_count, contour_point_index, starting_point,
                   last_point_was_off_curve, emitted>>
    /\ UNCHANGED cmap_vars
    /\ UNCHANGED conc_vars

GlyfNext ==
    \/ ForEachPointEntry
    \/ BeginContour
    \/ DecodePoint
    \/ CloseContour
    \/ ForEachPointReturn
    \/ BoundingRect

\* ======================================================================
\*               concurrent calls on the tables of one font
\* ======================================================================
Threads == 1..NThreads

\* The locals of the running thread: the arguments and `let` bindings of
\* glyph_ranges_for_codepoint_ranges (cmap.rs 42-207), for_each_point
\* (glyf.rs 50-144) and bounding_rect (glyf.rs 147-158).  The methods take
\* `&self` and the tables are `&[u8]`: nothing else is written.
Frame ==
    [codepoint_ranges |-> codepoint_ranges, cmap_pc |-> cmap_pc, hdr |-> hdr,
     range_index |-> range_index, codepoint_range |-> codepoint_range,
     glyph_ranges |-> glyph_ranges, segment |-> segment, cmap_result |-> cmap_result,
     location |-> location, glyf_pc |-> glyf_pc, glyf_result |-> glyf_result,
     number_of_contours |-> number_of_contours, contour |-> contour,
     endpoints_reader |-> endpoints_reader, flag_parser |-> flag_parser,
     x_coordinate_reader |-> x_coordinate_reader,
     y_coordinate_reader |-> y_coordinate_reader, position |-> position,
     point_index |-> point_index, contour_point_count |-> contour_point_count,
     contour_point_index |-> contour_point_index, starting_point |-> starting_point,
     last_point_was_off_curve |-> last_point_was_off_curve, emitted |-> emitted,
     rect_result |-> rect_result]

\* The locals of a thread that is in no call.
NoFrame ==
    [codepoint_ranges |-> <<>>, cmap_pc |-> "idle", hdr |-> NoHeader,
     range_index |-> 0, codepoint_range |-> Range(0, 0),
     glyph_ranges |-> <<>>, segment |-> NoSegment, cmap_result |-> "none",
     location |-> Err, glyf_pc |-> "idle", glyf_result |-> "none",
     number_of_contours |-> 0, contour |-> 0,
     endpoints_reader |-> Err, flag_parser |-> NoParser,
     x_coordinate_reader |-> Err,
     y_coordinate_reader |-> Err, position |-> Pt(0, 0),
     point_index |-> 0, contour_point_count |-> 0,
     contour_point_index |-> 0, starting_point |-> Pt(0, 0),
     last_point_was_off_curve |-> FALSE, emitted |-> <<>>,
     rect_result |-> [NoRect EXCEPT !.tag = "idle"]]

\* The locals at the entry of each of the three methods.
CmapCall(ranges) == [NoFrame EXCEPT !.codepoint_ranges = ranges, !.cmap_pc = "entry"]
ForEachPointCall(offset) == [NoFrame EXCEPT !.location = offset, !.glyf_pc = "entry"]
BoundingRectCall(offset) == [NoFrame EXCEPT !.location = offset, !.rect_result = NoRect]

\* The call of frame f has returned or panicked.
Halted(f) ==
    /\ f.cmap_pc \in {"idle", "returned", "panicked"}
    /\ f.glyf_pc \in {"idle", "returned", "panicked"}
    /\ f.rect_result.tag # "none"

\* Mutation of OwnVec: the output vector is one buffer all calls share.
SharedVec(own, current) == current

\* `let mut glyph_ranges = vec![]` (cmap.rs 99): the output vector of a call
\* is its own; `current` is what the thread that ran last left.
OwnVec(own, current) == own

\* The running thread's locals become those of frame f.
Resume(f) ==
    /\ codepoint_ranges' = f.codepoint_ranges
    /\ cmap_pc' = f.cmap_pc
    /\ hdr' = f.hdr
    /\ range_index' = f.range_index
    /\ codepoint_range' = f.codepoint_range
    /\ glyph_ranges' = OwnVec(f.glyph_ranges, glyph_ranges)
    /\ segment' = f.segment
    /\ cmap_result' = f.cmap_result
    /\ location' = f.location
    /\ glyf_pc' = f.glyf_pc
    /\ glyf_result' = f.glyf_result
    /\ number_of_contours' = f.number_of_contours
    /\ contour' = f.contour
    /\ endpoints_reader' = f.endpoints_reader
    /\ flag_parser' = f.flag_parser
    /\ x_coordinate_reader' = f.x_coordinate_reader
    /\ y_coordinate_reader' = f.y_coordinate_reader
    /\ position' = f.position
    /\ point_index' = f.point_index
    /\ contour_point_count' = f.contour_point_count
    /\ contour_point_index' = f.contour_point_index
    /\ starting_point' = f.starting_point
    /\ last_point_was_off_curve' = f.last_point_was_off_curve
    /\ emitted' = f.emitted
    /\ rect_result' = f.rect_result

\* The queries of the concurrent calls: overlapping and disjoint codepoint
\* ranges, and the glyphs at two offsets of the glyf table.
ConcRequests == {<<Range(34, 35)>>, <<Range(33, 36), Range(65536, 65536)>>}
ConcOffsets == {0, 2}

Calls == {CmapCall(r) : r \in ConcRequests}
         \cup {ForEachPointCall(o) : o \in ConcOffsets}
         \cup {BoundingRectCall(2)}

\* The cmap table and the glyph of the glyf table of a font.
Fonts == {<<CmapSentinel, Simple(TwoContours)>>, <<CmapNoSentinel, Simple(OffCurvePair)>>}

\* Every thread is about to make one call on the tables of one font; the
\* calls first run alone, one after the other.
ConcInit ==
    /\ overflow_checks \in BOOLEAN
    /\ \E font \in Fonts :
         /\ cmap_bytes = font[1]
         /\ glyph = font[2]
         /\ glyf_bytes = Zeros(2) \o font[2].record \o Trailer
    /\ parked \in [Threads -> Calls]
    /\ alone = [t \in Threads |-> NoFrame]
    /\ phase = "alone"
    /\ thread = 1
    /\ codepoint_ranges = parked[1].codepoint_ranges
    /\ cmap_pc = parked[1].cmap_pc
    /\ hdr = parked[1].hdr
    /\ range_index = parked[1].range_index
    /\ codepoint_range = parked[1].codepoint_range
    /\ glyph_ranges = parked[1].glyph_ranges
    /\ segment = parked[1].segment
    /\ cmap_result = parked[1].cmap_result
    /\ location = parked[1].location
    /\ glyf_pc = parked[1].glyf_pc
    /\ glyf_result = parked[1].glyf_result
    /\ number_of_contours = parked[1].number_of_contours
    /\ contour = parked[1].contour
    /\ endpoints_reader = parked[1].endpoints_reader
    /\ flag_parser = parked[1].flag_parser
    /\ x_coordinate_reader = parked[1].x_coordinate_reader
    /\ y_coordinate_reader = parked[1].y_coordinate_reader
    /\ position = parked[1].position
    /\ point_index = parked[1].point_index
    /\ contour_point_count = parked[1].contour_point_count
    /\ contour_point_index = parked[1].contour_point_index
    /\ starting_point = parked[1].starting_point
    /\ last_point_was_off_curve = parked[1].last_point_was_off_curve
    /\ emitted = parked[1].emitted
    /\ rect_result = parked[1].rect_result

\* A call that ran alone has ended: its final locals are recorded and the
\* next thread's call runs; after the last one all calls start over, together.
NextAlone ==
    /\ phase = "alone"
    /\ Halted(Frame)
    /\ alone' = [alone EXCEPT ![thread] = Frame]
    /\ IF thread < NThreads
       THEN /\ thread' = thread + 1
            /\ Resume(parked[thread + 1])
            /\ UNCHANGED <<phase, parked>>
       ELSE /\ thread' = 1
            /\ Resume(parked[1])
            /\ phase' = "together"
            /\ parked' = [parked EXCEPT ![1] = NoFrame]
    /\ UNCHANGED <<overflow_checks, cmap_bytes, glyph, glyf_bytes>>

\* The scheduler preempts the running thread between two steps and another
\* thread runs.
Switch ==
    /\ phase = "together"
    /\ \E u \in Threads \ {thread} :
         /\ thread' = u
         /\ parked' = [parked EXCEPT ![thread] = Frame, ![u] = NoFrame]
         /\ Resume(parked[u])
    /\ UNCHANGED <<phase, alone>>
    /\ UNCHANGED <<overflow_checks, cmap_bytes, glyph, glyf_bytes>>

ConcNext ==
    \/ CmapEntry
    \/ ForNext
    \/ WhileExit
    \/ StepBeyondBMP
    \/ StepLookup
    \/ CmapReturn
    \/ ForEachPointEntry
    \/ BeginContour
    \/ DecodePoint
    \/ CloseContour
    \/ ForEachPointReturn
    \/ BoundingRect
    \/ NextAlone
    \/ Switch

\* ======================================================================
\*                           specifications
\* ======================================================================
vars == <<cmap_vars, glyf_vars, conc_vars>>

\* One call of glyph_ranges_for_codepoint_ranges.
SpecCmap == CmapInit /\ [][CmapNext]_vars

\* One call of for_each_point and one of bounding_rect on a glyf table.
SpecGlyf == GlyfInit /\ [][GlyfNext]_vars

\* One call per thread on the tables of one font, the threads interleaved
\* step by step.
SpecConcurrent == ConcInit /\ [][ConcNext]_vars

\* ======================================================================
\*                          cmap: properties
\* ======================================================================
RECURSIVE SumOver(_, _)
SumOver(xs, i) ==
    IF i > Len(xs) THEN 0 ELSE (xs[i].end - xs[i].start + 1) + SumOver(xs, i + 1)

\* Codepoints of a list of ranges, each counted as end - start + 1.
Covered(xs) == SumOver(xs, 1)

\* The last `while` iteration looked up a segment and read its four fields.
Matched == segment.index # None /\ segment.start_code # Err

\* Field i (from 0) of the arrays of the parsed header.
StartCode(i) == ReadU16At(cmap_bytes, hdr.start_codes, i)
EndCode(i) == ReadU16At(cmap_bytes, hdr.end_codes, i)

\* Element k (from 0) of the trailing glyph-id array.
GlyphIdAt(k) == ReadU16(cmap_bytes, hdr.glyph_ids + 2 * k)

\* C1: on success the codepoints covered by the returned Glyph Ranges, each
\* range counted as end - start + 1, are as many as the requested codepoints.
\* Violated: a direct-mapped segment whose delta wraps past glyph 0xFFFF is
\* returned as one range whose end is below its start.
C1_CoverageCount ==
    cmap_result = "Ok" => Covered(glyph_ranges) = Covered(codepoint_ranges)

\* The requested codepoints have all been consumed.
AllConsumed == range_index > Len(codepoint_ranges)

\* C2: the call is all-or-nothing: it never faults, and it returns either the
\* decode failure or a list covering every requested codepoint.
\* Violated: a range that reaches the end-code 0xFFFF of the sentinel segment
\* overflows `end_codepoint_range + 1`.
C2_AllOrNothing ==
    /\ cmap_pc # "panicked"
    /\ cmap_pc = "returned" =>
         \/ cmap_result = "Err"
         \/ cmap_result = "Ok" /\ AllConsumed
                               /\ Covered(glyph_ranges) = Covered(codepoint_ranges)

\* C3: a matched segment with id-range-offset 0 and id-delta d turns the
\* sub-range [s, e], e = min(requested end, end-code), into exactly one Glyph
\* Range [(s + d) mod 2^16, (e + d) mod 2^16].
\* Violated: the requested end is truncated to 16 bits before the clipping.
C3_DirectRange ==
    (Matched /\ segment.id_range_offset = 0) =>
        /\ segment.pushed = 1
        /\ Len(glyph_ranges) = segment.first + 1
        /\ glyph_ranges[segment.first + 1] =
             [start |-> (segment.c + segment.id_delta) % Pow16,
              end |-> (Min(codepoint_range.end, segment.end_code)
                       + segment.id_delta) % Pow16]

\* The singleton the glyph-id array element v stands for.
SingletonOf(v, d) ==
    IF v = 0 THEN [start |-> MISSING_GLYPH, end |-> MISSING_GLYPH]
    ELSE [start |-> (v + d) % Pow16, end |-> (v + d) % Pow16]

\* C4: a matched segment with id-range-offset r # 0 turns every codepoint c of
\* the clipped sub-range into one singleton taken from the glyph-id array
\* element at index r/2 + (c - start_code).
\* Violated: the code reads the element at index r + (c - start_code).
C4_IndirectLookup ==
    (Matched /\ segment.id_range_offset # 0 /\ cmap_pc = "while"
       /\ segment.clipped_end >= segment.c) =>
        /\ segment.pushed = segment.clipped_end - segment.c + 1
        /\ \A k \in 0..(segment.clipped_end - segment.c) :
             LET v == GlyphIdAt(segment.id_range_offset \div 2
                                + (segment.c + k - segment.start_code))
             IN  v # Err =>
                   glyph_ranges[segment.first + 1 + k] = SingletonOf(v, segment.id_delta)

\* Segments of the parsed header that contain codepoint c.
Containing(c) ==
    {i \in 0..(hdr.seg_count - 1) : StartCode(i) <= c /\ c <= EndCode(i)}

\* The segments are ascending and do not overlap.
Ascending ==
    /\ \A i \in 0..(hdr.seg_count - 1) : StartCode(i) <= EndCode(i)
    /\ \A i \in 0..(hdr.seg_count - 2) : EndCode(i) < StartCode(i + 1)

\* The last `while` iteration searched the segments for segment.c.
Searched == hdr.ok /\ segment.c # Err

\* C5: with ascending, non-overlapping segments the binary search finds the
\* segment that contains the codepoint when there is one, and a codepoint no
\* segment contains yields one MISSING_GLYPH singleton.
C5_BinarySearch ==
    (Searched /\ Ascending) =>
        IF Containing(segment.c) = {}
        THEN /\ segment.index = None
             /\ segment.pushed = 1
             /\ glyph_ranges[Len(glyph_ranges)] = MissingRange
        ELSE segment.index \in Containing(segment.c)

\* A codepoint equal to the end-code of the second of four segments was found.
C5_Witness ==
    /\ Searched /\ Ascending
    /\ hdr.seg_count = 4
    /\ segment.index = 1
    /\ segment.c = EndCode(1)

\* The big-endian 16-bit and 32-bit fields at byte offset `at` of the table.
Field16(at) == cmap_bytes[at + 1] * 256 + cmap_bytes[at + 2]
Field32(at) == Field16(at) * Pow16 + Field16(at + 2)

\* The table holds a version field that is not 0.
BadVersion == Len(cmap_bytes) >= 2 /\ Field16(0) # 0

\* The first encoding record names a (platform, encoding) pair other than
\* Unicode/any, Microsoft/Unicode BMP and Microsoft/Unicode UCS-4.
BadEncoding ==
    /\ Len(cmap_bytes) >= 8
    /\ Field16(4) # 0
    /\ <<Field16(4), Field16(6)>> \notin {<<3, 1>>, <<3, 10>>}

\* The format field at the subtable offset the header records is not 4.
BadFormat ==
    /\ Len(cmap_bytes) >= 12
    /\ Field32(8) + 2 <= Len(cmap_bytes)
    /\ Field16(Field32(8)) # 4

\* C11: when the version is not 0, the first encoding record's (platform,
\* encoding) is unsupported, or the format at the subtable offset is not 4,
\* the call returns the decode failure, whatever ranges are requested.
C11_HeaderRejected ==
    ((BadVersion \/ BadEncoding \/ BadFormat) /\ cmap_pc # "entry") =>
        /\ cmap_pc = "returned"
        /\ cmap_result = "Err"
        /\ glyph_ranges = <<>>

\* A table with version 0 and a supported encoding whose subtable has
\* another format was rejected, on a request of MaxRanges ranges.
C11_Witness ==
    /\ ~BadVersion /\ ~BadEncoding /\ BadFormat
    /\ Len(codepoint_ranges) = MaxRanges
    /\ cmap_pc = "returned"
    /\ cmap_result = "Err"

\* C12: the call terminates: every iteration of the per-range `while` loop
\* that continues the loop strictly increases the range's lower bound.
\* Violated: at the end-code 0xFFFF the new lower bound wraps to 0, and a
\* requested end beyond 0xFFFF, truncated to 16 bits, can fall below the
\* lower bound, which the iteration then leaves where it was.
C12_LowerBoundIncreases ==
    [][(cmap_pc = "while" /\ cmap_pc' = "while") =>
          codepoint_range'.start > codepoint_range.start]_vars

IdDelta(i) == ReadU16At(cmap_bytes, hdr.id_deltas, i)
IdRangeOffset(i) == ReadU16At(cmap_bytes, hdr.id_range_offsets, i)

\* The glyph id of codepoint c under the parsed table: MISSING_GLYPH when no
\* segment contains c, (c + id-delta) mod 2^16 in a direct-mapped segment, and
\* the singleton of the glyph-id array element otherwise.
GlyphIdOf(c) ==
    IF c > U16_MAX \/ Containing(c) = {} THEN MISSING_GLYPH
    ELSE LET i == CHOOSE j \in Containing(c) : TRUE
         IN  IF IdRangeOffset(i) = 0 THEN (c + IdDelta(i)) % Pow16
             ELSE SingletonOf(GlyphIdAt(IdRangeOffset(i) \div 2 + (c - StartCode(i))),
                              IdDelta(i)).start

\* The glyph ids start, start + 1, ..., end of a Glyph Range.
Expand(range) ==
    IF range.end < range.start THEN <<>>
    ELSE [k \in 1..(range.end - range.start + 1) |-> range.start + k - 1]

\* The glyph ids of the codepoints start, start + 1, ..., end.
GlyphIdsOf(range) ==
    [k \in 1..(range.end - range.start + 1) |-> GlyphIdOf(range.start + k - 1)]

\* C14: on success the expansions of the returned Glyph Ranges, concatenated
\* in output order, list the glyph id of every requested codepoint in request
\* order.
\* Violated: a direct-mapped segment whose delta addition wraps inside the
\* sub-range is returned as one range from the wrapped start to the wrapped
\* end, which expands to nothing.
C14_KthGlyph ==
    (cmap_result = "Ok" /\ Ascending) =>
        Concat([i \in 1..Len(glyph_ranges) |-> Expand(glyph_ranges[i])])
          = Concat([i \in 1..Len(codepoint_ranges) |-> GlyphIdsOf(codepoint_ranges[i])])

\* ======================================================================
\*                          glyf: properties
\* ======================================================================
\* Sum of the deltas of the first k points of a contour.
RECURSIVE SumDx(_, _)
SumDx(points, k) == IF k = 0 THEN 0 ELSE points[k].dx + SumDx(points, k - 1)

RECURSIVE SumDy(_, _)
SumDy(points, k) == IF k = 0 THEN 0 ELSE points[k].dy + SumDy(points, k - 1)

\* The points a contour of on-curve points stands for when the point before
\* it is at origin: its stored points, then the closing point.
ContourPoints(points, origin) ==
    [k \in 1..Len(points) |->
        Point(Pt(origin.x + SumDx(points, k), origin.y + SumDy(points, k)),
              points[k].on, k = 1, "stored")]
    \o <<Point(Pt(origin.x + points[1].dx, origin.y + points[1].dy),
               TRUE, FALSE, "closing")>>

\* The points a glyph of on-curve points stands for.
RECURSIVE GlyphPoints(_, _)
GlyphPoints(contours, origin) ==
    IF contours = <<>> THEN <<>>
    ELSE LET points == Head(contours)
             n == Len(points)
         IN  ContourPoints(points, origin)
             \o GlyphPoints(Tail(contours),
                            Pt(origin.x + SumDx(points, n), origin.y + SumDy(points, n)))

AllOnCurve ==
    /\ glyph.defect = "none"
    /\ glyph.contours # <<>>
    /\ \A i \in 1..Len(glyph.contours) :
         \A k \in 1..Len(glyph.contours[i]) : glyph.contours[i][k].on

\* C6: when for_each_point fails, the delivered points are whole contours:
\* no point of the contour in which the failure occurred was delivered.
\* Violated: a read that fails inside a contour leaves the contour's earlier
\* points delivered.
C6_WholeContours ==
    glyf_result = "Err" =>
        \/ emitted = <<>>
        \/ emitted[Len(emitted)].site = "closing"

\* The record's counts are inconsistent, or the table ends inside the record.
Inconsistent ==
    \/ glyph.defect \in {"endpoints", "last_endpoint", "repeat_run"}
    \/ location # Err /\ ~WholeRecord

\* C7: for a record with inconsistent counts or one the table ends in,
\* for_each_point returns the decode failure and never faults.
\* Violated: `last endpoint + 1`, `endpoint - point_index + 1` and
\* `points_left -= repeat_count` overflow.
C7_RejectsInconsistent ==
    Inconsistent =>
        /\ glyf_pc # "panicked"
        /\ glyf_pc = "returned" => glyf_result = "Err"

\* C8: for a glyph of on-curve points for_each_point succeeds and the points
\* delivered are the stored points at their absolute positions, contour by
\* contour, each contour followed by its closing point.
\* Violated: the flag parser fetches a byte after the last point's flag.
C8_OnCurveGlyph ==
    (AllOnCurve /\ WholeRecord) =>
        /\ glyf_pc # "panicked"
        /\ glyf_pc = "returned" =>
             /\ glyf_result = "Ok"
             /\ emitted = GlyphPoints(glyph.contours, Pt(0, 0))

\* The delivered point j is a stored off-curve point, not the first of its
\* contour, and the stored point before it is off-curve too.
SecondOffCurve(j) ==
    /\ j >= 2
    /\ emitted[j].site = "stored"
    /\ ~emitted[j].on_curve
    /\ ~emitted[j].first_point_in_contour
    /\ LET p == IF emitted[j - 1].site = "implied" THEN j - 2 ELSE j - 1
       IN  p >= 1 /\ emitted[p].site = "stored" /\ ~emitted[p].on_curve

\* Implied points are delivered between two consecutive off-curve stored
\* points of a contour and nowhere else, at the position mid(P, Q).
ImpliedPoints(mid(_, _)) ==
    \A j \in 1..Len(emitted) :
        /\ SecondOffCurve(j) =>
             /\ j >= 3
             /\ emitted[j - 2].site = "stored"
             /\ emitted[j - 1] = Point(mid(emitted[j - 2].position, emitted[j].position),
                                       TRUE, FALSE, "implied")
        /\ emitted[j].site = "implied" =>
             /\ j >= 2
             /\ emitted[j - 1].site = "stored" /\ ~emitted[j - 1].on_curve
             /\ j < Len(emitted) => SecondOffCurve(j + 1)

\* ((Px + Qx) / 2, (Py + Qy) / 2) in integer arithmetic.
MidOfSum(p, q) == Pt(Half(p.x + q.x), Half(p.y + q.y))

\* P plus half of the step from P to Q, in 16-bit arithmetic.
MidOfStep(p, q) ==
    WrapPt(Pt(p.x + Half(AsI16(q.x - p.x)), p.y + Half(AsI16(q.y - p.y))))

\* C9 as stated: the implied point is at ((Px+Qx)/2, (Py+Qy)/2).
\* Violated when the halved step and the halved sum round differently.
C9_MidpointOfSum == ImpliedPoints(MidOfSum)

\* C9 amended: between consecutive off-curve stored points P, Q of a contour,
\* and nowhere else, one on-curve, not-first point is delivered right before
\* Q at P + (Q - P) / 2, the division truncating toward zero.
C9_MidpointOfStep == ImpliedPoints(MidOfStep)

\* An implied point was delivered, followed by Q, where the two roundings
\* differ.
C9_Witness ==
    \E j \in 2..(Len(emitted) - 1) :
        /\ emitted[j].site = "implied"
        /\ MidOfStep(emitted[j - 1].position, emitted[j + 1].position)
             # MidOfSum(emitted[j - 1].position, emitted[j + 1].position)

\* C10: for a record with negative numberOfContours for_each_point fails
\* without delivering a point and bounding_rect returns no box.
\* Violated: bounding_rect does not look at numberOfContours.
C10_Composite ==
    glyph.defect = "composite" =>
        /\ emitted = <<>>
        /\ glyf_pc # "panicked"
        /\ glyf_pc = "returned" => glyf_result = "Err"
        /\ rect_result.tag \in {"none", "Err"}

\* The stored points of the glyph, contour after contour.
StoredPoints == Concat(glyph.contours)

\* The flag array of the glyph's record.
FlagBytes == RunLengthEncode([i \in 1..Len(StoredPoints) |-> FlagOf(StoredPoints[i])])

\* The flag byte of every point: a byte with the repeat bit stands for
\* count + 1 consecutive points, any other byte for one.
RECURSIVE ExpandRuns(_)
ExpandRuns(bytes) ==
    IF bytes = <<>> THEN <<>>
    ELSE IF (Head(bytes) \div REPEAT) % 2 = 1
    THEN [k \in 1..(bytes[2] + 1) |-> Head(bytes)] \o ExpandRuns(Tail(Tail(bytes)))
    ELSE <<Head(bytes)>> \o ExpandRuns(Tail(bytes))

\* Where the x-coordinate and y-coordinate arrays of the record start: after
\* the header, the endpoints, the instructions and the flag array.
XArrayStart == location + 10 + 2 * Len(glyph.contours) + 2 + 1 + Len(FlagBytes)
YArrayStart == XArrayStart + Len(Concat([i \in 1..Len(StoredPoints) |->
                                             AxisBytes(StoredPoints[i].dx)]))

\* Bytes of the x and y arrays that belong to the first k points.
RECURSIVE XBytes(_)
XBytes(k) == IF k = 0 THEN 0 ELSE Len(AxisBytes(StoredPoints[k].dx)) + XBytes(k - 1)

RECURSIVE YBytes(_)
YBytes(k) == IF k = 0 THEN 0 ELSE Len(AxisBytes(StoredPoints[k].dy)) + YBytes(k - 1)

\* The glyph's flag runs cover exactly its points and the streams are set up.
Decoding ==
    /\ glyph.defect \in {"none", "position"}
    /\ glyph.contours # <<>>
    /\ glyf_pc \in {"contours", "points"}

\* C15: on a glyph whose flag runs cover exactly its points the two passes
\* agree: the emission pass takes for every point the flag byte its run
\* gives it, a byte with repeat count n serving n + 1 points, and the x-array
\* length of the sizing pass is the number of x bytes the emission pass
\* consumes, so that the y reads start at the first byte of the y-array.
C15_PassesAgree ==
    Decoding =>
        /\ point_index < Len(StoredPoints) =>
              flag_parser.current = ExpandRuns(FlagBytes)[point_index + 1]
        /\ x_coordinate_reader = XArrayStart + XBytes(point_index)
        /\ y_coordinate_reader = YArrayStart + YBytes(point_index)
        /\ point_index = Len(StoredPoints) => x_coordinate_reader = YArrayStart

\* Every point of a glyph with a run of three equal flags has been decoded.
C15_Witness ==
    /\ Decoding
    /\ \E i \in 1..Len(FlagBytes) : (FlagBytes[i] \div REPEAT) % 2 = 1
                                       /\ i < Len(FlagBytes) /\ FlagBytes[i + 1] = 2
    /\ point_index = Len(StoredPoints)
    /\ XBytes(point_index) > 0 /\ YBytes(point_index) > 0

\* The stored points among the delivered ones.
DeliveredStored == {j \in 1..Len(emitted) : emitted[j].site = "stored"}

\* C16: on a well-formed simple glyph the flag parser fetches no byte beyond
\* the flag array, so for_each_point succeeds and delivers every stored
\* point, the last one included, also when the table ends with the glyph.
\* Violated: flag_parser.next() runs after the flag of every point, the last
\* one too, and fetches the byte that follows the flag array.
C16_NoReadAhead ==
    (glyph.defect = "none" /\ glyph.contours # <<>> /\ WholeRecord) =>
        /\ flag_parser.next # Err => flag_parser.next <= XArrayStart
        /\ glyf_pc # "panicked"
        /\ glyf_pc = "returned" =>
             /\ glyf_result = "Ok"
             /\ Cardinality(DeliveredStored) = Len(StoredPoints)

\* The record is a glyph of zero contours and the table holds its header.
ZeroContours ==
    /\ glyph.defect = "none"
    /\ glyph.contours = <<>>
    /\ location # Err
    /\ Len(glyf_bytes) >= location + 10

\* C17: for a record with numberOfContours = 0 for_each_point computes the
\* offset of the last endpoint without underflow: it does not fault, delivers
\* no point and succeeds on the header alone, reading no byte after it.
\* Violated: `number_of_contours as usize - 1` underflows for 0.
C17_ZeroContours ==
    ZeroContours =>
        /\ emitted = <<>>
        /\ glyf_pc # "panicked"
        /\ glyf_pc = "returned" => glyf_result = "Ok"

\* ======================================================================
\*                       concurrency: properties
\* ======================================================================
\* The final locals of thread t's call, once it has ended.
Ended(t) == IF t = thread THEN Frame ELSE parked[t]

\* The tables are those of a font, as they were before the calls.
TablesIntact ==
    \E font \in Fonts :
        /\ cmap_bytes = font[1]
        /\ glyph = font[2]
        /\ glyf_bytes = Zeros(2) \o font[2].record \o Trailer

\* C13: whatever the interleaving, every call ends with the result, and the
\* delivered points, it ends with when it runs alone, and the tables are
\* never written.
C13_SameAsAlone ==
    /\ TablesIntact
    /\ phase = "together" =>
         \A t \in Threads : Halted(Ended(t)) => Ended(t) = alone[t]

\* Two calls of glyph_ranges_for_codepoint_ranges with overlapping codepoint
\* ranges are both inside their loops, each with ranges pushed.
C13_Witness ==
    /\ phase = "together"
    /\ \E t \in Threads \ {thread} :
         /\ parked[t].cmap_pc = "while" /\ parked[t].glyph_ranges # <<>>
         /\ parked[t].codepoint_ranges # codepoint_ranges
    /\ cmap_pc = "while" /\ glyph_ranges # <<>>

====
